---------------------------- MODULE Spec2Model ----------------------------
(***************************************************************************)
(* Clip library page of the BJJ clip library web front end:                *)
(*   - the two-tier cache (module-level memoryCache + sessionStorage),      *)
(*   - the ClipLibraryPage controller (first page, background load-more,    *)
(*     optimistic favorite toggle),                                         *)
(*   - the React scheduling that decides which closure a callback sees.     *)
(* Source: src/deploy_web/frontend/src/app/components/library.tsx,          *)
(*         src/deploy_web/frontend/src/app/components/library/clip-list.tsx,*)
(*         src/unnamed/part_001 (data/api.ts).                              *)
(***************************************************************************)
EXTENDS Naturals, Integers, Sequences, FiniteSets, Bags, TLC

VARIABLES
  now,             \* Date.now(), in milliseconds
  ticks,           \* number of clock steps taken (bounds the clock)
  memoryCache,     \* module-level Map<string, CachedLibraryState>
  sessionStorage,  \* per-tab persistent store: key -> JSON text
  lastCall,        \* the call that has just returned, in the runs that drive
                   \* the cache store or the filter directly
  writtenAt,       \* per key, the time of the entry last written (Null: none)
  serverFav,       \* server side: clip id -> favorite flag
  mounted,         \* the ClipLibraryPage instance on screen
  st,              \* its React state, all queued updates applied
  view,            \* the state its last committed render closed over
  timer,           \* the 350 ms prefetch timer of the last commit is armed
  observer,        \* the IntersectionObserver of the last commit is connected
  pendingPersist,  \* persistCache calls sitting in queued setClips updaters
  requests,        \* bag of the HTTP requests in flight, each with its closure
  merged,          \* the pages merged into the mounted instance: their clip ids
                   \* in merge order, and the cursor of the last one
  done,            \* the favorite requests that have completed
  lastMount,       \* what the activation in progress found (Null once its
                   \* first update is committed)
  stale,           \* per variant: a favorite mutation succeeded since the
                   \* last first page of that variant was served
  used,            \* how much of each bound the run has used up
  storage,         \* which calls of the session store throw at present
  client,          \* the Remote Data Client call in progress (Null: none)
  clipVideo        \* the ClipVideo page: its instance, state and intervals

cacheVars == <<now, ticks, memoryCache, sessionStorage, lastCall, writtenAt>>
envVars   == <<storage, client, clipVideo>>
ctlVars   == <<serverFav, envVars, mounted, st, view, timer, observer, pendingPersist,
               requests, merged, done, lastMount, stale>>
vars      == <<now, ticks, memoryCache, sessionStorage, lastCall, writtenAt,
               serverFav, envVars, mounted, st, view, timer, observer,
               pendingPersist, requests, merged, done, lastMount, stale, used>>

-----------------------------------------------------------------------------
(* Bounds of the model *)

NumClips      == 4   \* clips the server holds, ids 1..NumClips
ServerPageCap == 3   \* most clips the server puts in one page
MaxMounts     == 2   \* visits of a library route
MaxWaits      == 1   \* times the user waits (one time-to-live each)
MaxClicks     == 3   \* clicks on a clip card or in the detail panel
MaxFailures   == 1   \* page and metadata requests answered non-2xx
MaxTicks      == 3   \* clock steps of the cache-only specification
MaxWrites     == 2   \* writeCachedState calls of the cache-only specification
MaxShown      == 3   \* clips of a list the filter is applied to
MaxOpens      == 2   \* times the ClipVideo page is opened
MaxRuns       == 2   \* clicks of Generate Clips

(* Program constants *)

CACHE_TTL_MS == 10 * 60 * 1000
PAGE_SIZE    == 30
DefaultLimit == 36

Null == [null |-> TRUE]

Min(a, b) == IF a < b THEN a ELSE b

ClipIds == 1 .. NumClips

-----------------------------------------------------------------------------
(* Arrays of tag values.  A tag is a natural number; the order of the      *)
(* numbers stands for the string order Array.prototype.sort() uses.        *)

SetOf(s) == {s[i] : i \in DOMAIN s}

RECURSIVE SortedSeq(_)
SortedSeq(S) ==
  IF S = {} THEN <<>>
  ELSE LET m == CHOOSE x \in S : \A y \in S : x <= y
       IN  <<m>> \o SortedSeq(S \ {m})

\* Array.from(new Set([...prev, ...more])).sort()
MergeOptions(prev, more) == SortedSeq(SetOf(prev) \cup SetOf(more))

\* The tag arrays of a clip are fixed by its id (the client never writes them).
MainTagsOf(id)  == <<((id - 1) % 2) + 1>>
VideoTagsOf(id) == IF id % 2 = 0 THEN <<2, 1>> ELSE <<1>>
SubTagsOf(id)   == IF id = 1 THEN <<>> ELSE <<id>>

\* Array.from(new Set(page.clips.flatMap((clip) => clip.mainTags || []))).sort()
MainFromClips(clips) ==
  SortedSeq(UNION {SetOf(MainTagsOf(clips[i].id)) : i \in DOMAIN clips})
VideoFromClips(clips) ==
  SortedSeq(UNION {SetOf(VideoTagsOf(clips[i].id)) : i \in DOMAIN clips})
SubFromClips(clips) ==
  SortedSeq(UNION {SetOf(SubTagsOf(clips[i].id)) : i \in DOMAIN clips})

-----------------------------------------------------------------------------
(* The server behind the Remote Data Client *)

\* GET /api/library/meta: the option lists as the server sends them
ServerMeta ==
  [mainTagOptions     |-> <<3, 1>>,
   videoTagOptions    |-> <<1>>,
   subTagOptions      |-> <<>>,
   positionOptions    |-> <<1, 2>>]

RECURSIVE SelectIds(_, _)
SelectIds(ids, fav) ==
  IF ids = <<>> THEN <<>>
  ELSE (IF fav[Head(ids)] THEN <<Head(ids)>> ELSE <<>>)
         \o SelectIds(Tail(ids), fav)

AllIds == [i \in 1 .. NumClips |-> i]

\* The clip list a variant pages through, in server order
ServerList(favoritesOnly, fav) ==
  IF favoritesOnly THEN SelectIds(AllIds, fav) ELSE AllIds

\* GET /api/library/clips|favorites?limit&offset: a ClipsPage
ServerPage(favoritesOnly, fav, limit, offset) ==
  LET list  == ServerList(favoritesOnly, fav)
      take  == Min(limit, ServerPageCap)
      last  == Min(offset + take, Len(list))
      ids   == IF offset >= Len(list) THEN <<>>
               ELSE SubSeq(list, offset + 1, last)
      clips == [i \in DOMAIN ids |->
                  [id |-> ids[i], isFavorite |-> fav[ids[i]]]]
  IN  [clips      |-> clips,
       limit      |-> limit,
       offset     |-> offset,
       nextOffset |-> offset + Len(clips),
       hasMore    |-> offset + Len(clips) < Len(list)]

-----------------------------------------------------------------------------
(* The cache store: library.tsx lines 24-84 *)

cacheKey(favoritesOnly) ==
  IF favoritesOnly THEN "clip-library:favorites" ELSE "clip-library:all"

Keys == {cacheKey(FALSE), cacheKey(TRUE)}

\* JSON.stringify / JSON.parse of a CachedLibraryState.  Every field is a
\* JSON value (arrays, numbers, booleans, strings), so the text determines
\* the value; the text is kept apart from the value it encodes.
JSONstringify(state) == [json |-> state]
JSONparse(raw)       == raw.json

\* A text in the session store that JSON.parse rejects
Unparsable == [unparsable |-> TRUE]

\* The session store throws on setItem when the quota is used up ("full") and
\* on every call when the browser denies access to it ("denied")
StorageModes == {"ok", "full", "denied"}

setItemThrows    == storage \in {"full", "denied"}
getItemThrows    == storage = "denied"
removeItemThrows == storage = "denied"

\* The two tiers after clearLibraryCaches()
\* clearLibraryCaches that leaves the session store alone
clearLibraryCachesMemoryOnly(mem, ss) ==
  [mem |-> [k \in Keys |-> Null],
   ss  |-> ss]

\* clearLibraryCaches(): a removeItem that throws is ignored (lines 46-50)
clearLibraryCaches(mem, ss) ==
  [mem |-> [k \in Keys |-> Null],
   ss  |-> IF removeItemThrows THEN ss ELSE [k \in Keys |-> Null]]

\* readCachedState with the freshness comparisons off by one (<= for <)
readCachedStateInclusive(mem, ss, favoritesOnly, t) ==
  LET key      == cacheKey(favoritesOnly)
      inMemory == mem[key]
      raw      == ss[key]
  IN  IF inMemory # Null /\ t - inMemory.cachedAt <= CACHE_TTL_MS
        THEN [value |-> inMemory, mem |-> mem, ss |-> ss]
      ELSE IF raw = Null
        THEN [value |-> Null, mem |-> mem, ss |-> ss]
      ELSE IF t - JSONparse(raw).cachedAt > CACHE_TTL_MS
        THEN [value |-> Null, mem |-> mem,
              ss |-> [ss EXCEPT ![key] = Null]]
      ELSE [value |-> JSONparse(raw),
            mem   |-> [mem EXCEPT ![key] = JSONparse(raw)],
            ss    |-> ss]

\* readCachedState that returns a fresh persistent entry without keeping it in
\* memory
readCachedStateNoPromotion(mem, ss, favoritesOnly, t) ==
  LET key      == cacheKey(favoritesOnly)
      inMemory == mem[key]
      raw      == ss[key]
  IN  IF inMemory # Null /\ t - inMemory.cachedAt < CACHE_TTL_MS
        THEN [value |-> inMemory, mem |-> mem, ss |-> ss]
      ELSE IF raw = Null
        THEN [value |-> Null, mem |-> mem, ss |-> ss]
      ELSE IF t - JSONparse(raw).cachedAt >= CACHE_TTL_MS
        THEN [value |-> Null, mem |-> mem,
              ss |-> [ss EXCEPT ![key] = Null]]
      ELSE [value |-> JSONparse(raw), mem |-> mem, ss |-> ss]

\* readCachedState(favoritesOnly) at time t: the value returned and the two
\* tiers afterwards (a fresh persistent entry is promoted, a stale one removed)
readCachedState(mem, ss, favoritesOnly, t) ==
  LET key      == cacheKey(favoritesOnly)
      inMemory == mem[key]
      raw      == ss[key]
  IN  IF inMemory # Null /\ t - inMemory.cachedAt < CACHE_TTL_MS
        THEN [value |-> inMemory, mem |-> mem, ss |-> ss]
      ELSE IF getItemThrows \/ raw = Null \/ raw = Unparsable
        THEN [value |-> Null, mem |-> mem, ss |-> ss]
      ELSE IF t - JSONparse(raw).cachedAt >= CACHE_TTL_MS
        THEN [value |-> Null, mem |-> mem,
              ss |-> [ss EXCEPT ![key] = Null]]
      ELSE [value |-> JSONparse(raw),
            mem   |-> [mem EXCEPT ![key] = JSONparse(raw)],
            ss    |-> ss]

\* writeCachedState with a key that ignores the variant
writeCachedStateOneKey(mem, ss, favoritesOnly, state) ==
  LET key == cacheKey(FALSE)
  IN  [mem |-> [mem EXCEPT ![key] = state],
       ss  |-> [ss EXCEPT ![key] = JSONstringify(state)]]

\* writeCachedState that gives up the whole write when setItem throws
writeCachedStateAllOrNothing(mem, ss, favoritesOnly, state) ==
  LET key == cacheKey(favoritesOnly)
  IN  IF setItemThrows THEN [mem |-> mem, ss |-> ss]
      ELSE [mem |-> [mem EXCEPT ![key] = state],
            ss  |-> [ss EXCEPT ![key] = JSONstringify(state)]]

\* writeCachedState(favoritesOnly, state): a setItem that throws is ignored
\* (lines 79-83)
writeCachedState(mem, ss, favoritesOnly, state) ==
  LET key == cacheKey(favoritesOnly)
  IN  [mem |-> [mem EXCEPT ![key] = state],
       ss  |-> IF setItemThrows THEN ss
               ELSE [ss EXCEPT ![key] = JSONstringify(state)]]

\* persistCache(next) of an instance showing variant favoritesOnly, at time t
persistCache(mem, ss, favoritesOnly, next, t) ==
  writeCachedState(mem, ss, favoritesOnly,
    [clips             |-> next.clips,
     hasMoreFromServer |-> next.hasMoreFromServer,
     nextOffset        |-> next.nextOffset,
     mainTagOptions    |-> next.mainTagOptions,
     videoTagOptions   |-> next.videoTagOptions,
     subTagOptions     |-> next.subTagOptions,
     positionOptions   |-> next.positionOptions,
     cachedAt          |-> t])

-----------------------------------------------------------------------------
(* The ClipLibraryPage component: library.tsx lines 86-414 *)

Msg(text) == [message |-> text]

\* The useState initial values (lines 88-106).  touched: an array state the
\* memoised callbacks depend on has been set to a new array since the last
\* commit (React compares dependencies by identity, not by content).
InitialState ==
  [clips             |-> <<>>,
   hasMoreFromServer |-> FALSE,
   nextOffset        |-> 0,
   mainTagOptions    |-> <<>>,
   videoTagOptions   |-> <<>>,
   subTagOptions     |-> <<>>,
   positionOptions   |-> <<>>,
   isLoading         |-> TRUE,
   isLoadingMore     |-> FALSE,
   errorMessage      |-> Null,
   selectedClip      |-> Null,
   touched           |-> FALSE]

\* prev.map((item) => item.id === id ? { ...item, isFavorite: value } : item)
SetFavorite(clips, id, value) ==
  [i \in DOMAIN clips |->
     IF clips[i].id = id THEN [clips[i] EXCEPT !.isFavorite = value]
     ELSE clips[i]]

\* (prev) => prev && prev.id === id ? { ...prev, isFavorite: value } : prev
SetSelectedFavorite(prev, id, value) ==
  IF prev # Null /\ prev.id = id THEN [prev EXCEPT !.isFavorite = value]
  ELSE prev

RECURSIVE WithoutId(_, _)
\* prev.filter((item) => item.id !== id)
WithoutId(clips, id) ==
  IF clips = <<>> THEN <<>>
  ELSE (IF Head(clips).id # id THEN <<Head(clips)>> ELSE <<>>)
         \o WithoutId(Tail(clips), id)

\* The guard shared by loadMoreClips (line 211), the prefetch effect (line 271)
\* and the ClipList observer effect (clip-list.tsx line 49)
CanLoadMore(s) ==
  ~s.isLoading /\ ~s.isLoadingMore /\ s.hasMoreFromServer

\* ClipList renders the sentinel <div ref={loadMoreRef}> only in the list
\* branch (clip-list.tsx lines 125-198); no filter is active in this model
SentinelRendered(s) ==
  s.errorMessage = Null /\ ~s.isLoading /\ s.clips # <<>>

\* What the async callbacks of a render read from its scope after their await
Closure(v) ==
  [clips             |-> v.clips,
   hasMoreFromServer |-> v.hasMoreFromServer,
   nextOffset        |-> v.nextOffset,
   mainTagOptions    |-> v.mainTagOptions,
   videoTagOptions   |-> v.videoTagOptions,
   subTagOptions     |-> v.subTagOptions,
   positionOptions   |-> v.positionOptions]

RECURSIVE Copies(_, _)
\* How many requests of the bag are in the set S
Copies(bag, S) ==
  IF S = {} THEN 0
  ELSE LET q == CHOOSE x \in S : TRUE
       IN  bag[q] + Copies(bag, S \ {q})

Put(bag, req)  == bag (+) SetToBag({req})
Take(bag, req) == bag (-) SetToBag({req})

\* A request is alive while the instance that issued it is still mounted
Alive(req) == mounted.alive /\ req.alive

\* The dependencies of loadMoreClips and of the two effects differ between the
\* last commit v and the state s about to be committed
DepsChanged(s, v) ==
  \/ s.touched
  \/ s.hasMoreFromServer # v.hasMoreFromServer
  \/ s.nextOffset # v.nextOffset
  \/ s.isLoading # v.isLoading
  \/ s.isLoadingMore # v.isLoadingMore

RECURSIVE FlushPersist(_, _, _, _, _)
\* The persistCache calls inside queued setClips updaters run when React
\* processes the queue, in order
FlushPersist(mem, ss, favoritesOnly, queue, t) ==
  IF queue = <<>> THEN [mem |-> mem, ss |-> ss]
  ELSE LET w == persistCache(mem, ss, favoritesOnly, Head(queue), t)
       IN  FlushPersist(w.mem, w.ss, favoritesOnly, Tail(queue), t)

\* React renders state s and commits it: the callbacks of the new render close
\* over s, and the two effects re-run when a dependency changed
\* (prefetch effect lines 270-278, observer effect clip-list.tsx lines 48-67)
Commit(s) ==
  LET w == FlushPersist(memoryCache, sessionStorage, mounted.favoritesOnly,
                        pendingPersist, now)
  IN  /\ st' = [s EXCEPT !.touched = FALSE]
      /\ view' = [s EXCEPT !.touched = FALSE]
      /\ timer' = IF DepsChanged(s, view) THEN CanLoadMore(s) ELSE timer
      /\ observer' = IF DepsChanged(s, view)
                       THEN CanLoadMore(s) /\ SentinelRendered(s)
                       ELSE observer
      /\ pendingPersist' = <<>>
      /\ memoryCache' = w.mem
      /\ sessionStorage' = w.ss

MetaRequest ==
  [kind |-> "meta", alive |-> TRUE, favoritesOnly |-> FALSE, offset |-> 0,
   clipId |-> 0, value |-> FALSE, cl |-> Null]

PageRequest(kind, favoritesOnly, offset, cl) ==
  [kind |-> kind, alive |-> TRUE, favoritesOnly |-> favoritesOnly,
   offset |-> offset, clipId |-> 0, value |-> FALSE, cl |-> cl]

FavoriteRequest(favoritesOnly, clipId, value, cl) ==
  [kind |-> "favorite", alive |-> TRUE, favoritesOnly |-> favoritesOnly,
   offset |-> 0, clipId |-> clipId, value |-> value, cl |-> cl]

\* A hydration that takes the clips of the snapshot but not its cursor
HydratedWithoutCursor(s, cached) ==
  [s EXCEPT !.clips             = cached.clips,
            !.hasMoreFromServer = cached.hasMoreFromServer,
            !.mainTagOptions    = cached.mainTagOptions,
            !.videoTagOptions   = cached.videoTagOptions,
            !.subTagOptions     = cached.subTagOptions,
            !.positionOptions   = cached.positionOptions,
            !.isLoading         = FALSE,
            !.touched           = TRUE]

\* The state after the hydration branch of the mount effect (lines 150-159)
Hydrated(s, cached) ==
  [s EXCEPT !.clips             = cached.clips,
            !.hasMoreFromServer = cached.hasMoreFromServer,
            !.nextOffset        = cached.nextOffset,
            !.mainTagOptions    = cached.mainTagOptions,
            !.videoTagOptions   = cached.videoTagOptions,
            !.subTagOptions     = cached.subTagOptions,
            !.positionOptions   = cached.positionOptions,
            !.isLoading         = FALSE,
            !.touched           = TRUE]

\* The mount effects with loadFirstPage() called on a cache hit too
MountRequestsAlways(favoritesOnly, cached) ==
  SetToBag({MetaRequest,
            PageRequest("first", favoritesOnly, 0, Closure(InitialState))})

\* The requests the mount effects issue: loadMeta() always (lines 127-146),
\* loadFirstPage() on a cache miss only (lines 148-208)
MountRequests(favoritesOnly, cached) ==
  IF cached # Null THEN SetToBag({MetaRequest})
  ELSE SetToBag({MetaRequest,
                 PageRequest("first", favoritesOnly, 0, Closure(InitialState))})

\* The requests still worth tracking once the instance on screen is unmounted:
\* loadMeta and loadFirstPage return at once when their instance is gone
\* (lines 132, 138, 170, 198, 201), so their responses change nothing;
\* loadMoreClips and handleToggleFavorite have no such guard
Surviving(bag) ==
  LET keep == {q \in BagToSet(bag) : q.kind \in {"more", "favorite"}}
      gone == {[q EXCEPT !.alive = FALSE] : q \in keep}
  IN  [d \in gone |->
         Copies(bag, {q \in keep : [q EXCEPT !.alive = FALSE] = d})]

\* The route renders <ClipLibraryPage favoritesOnly={f}/>: the instance on
\* screen, if any, is unmounted (its effects are cleaned up, its queued
\* updates are dropped), the new one renders its initial state and runs its
\* mount effects.
Mount(f) ==
  /\ used.mounts < MaxMounts
  /\ used' = [used EXCEPT !.mounts = @ + 1]
  /\ LET r    == readCachedState(memoryCache, sessionStorage, f, now)
     IN  /\ mounted' = [alive |-> TRUE, favoritesOnly |-> f]
         /\ memoryCache' = r.mem
         /\ sessionStorage' = r.ss
         /\ view' = InitialState
         /\ st' = IF r.value # Null THEN Hydrated(InitialState, r.value)
                  ELSE InitialState
         /\ requests' = Surviving(requests) (+) MountRequests(f, r.value)
         /\ lastMount' = [hit |-> r.value # Null, stale |-> stale[f],
                          cached |-> r.value]
  /\ timer' = FALSE
  /\ observer' = FALSE
  /\ pendingPersist' = <<>>
  /\ merged' = Null
  /\ UNCHANGED <<now, ticks, lastCall, writtenAt, serverFav, envVars, done, stale>>

\* The scheduler task in which React processes the queued updates
Render ==
  /\ mounted.alive
  /\ st # view \/ pendingPersist # <<>>
  /\ Commit(st)
  /\ lastMount' = Null
  /\ UNCHANGED <<now, ticks, lastCall, writtenAt, serverFav, envVars, mounted,
                 requests, merged, done, stale, used>>

\* loadMoreClips() of the render that closed over v (lines 210-219): the
\* state after the synchronous part, and the request it issues
LoadMoreState(s, v) ==
  IF CanLoadMore(v)
    THEN [s EXCEPT !.isLoadingMore = TRUE, !.errorMessage = Null]
    ELSE s

LoadMoreRequests(v) ==
  IF CanLoadMore(v)
    THEN SetToBag({PageRequest("more", mounted.favoritesOnly,
                               v.nextOffset, Closure(v))})
    ELSE EmptyBag

\* The 350 ms timer of the last commit fires (lines 274-276)
TimerFires ==
  /\ mounted.alive
  /\ timer
  /\ timer' = FALSE
  /\ st' = LoadMoreState(st, view)
  /\ requests' = requests (+) LoadMoreRequests(view)
  /\ UNCHANGED <<cacheVars, serverFav, envVars, mounted, view, observer,
                 pendingPersist, merged, done, lastMount, stale, used>>

\* The observer of the last commit reports the sentinel entering the margin
\* (clip-list.tsx lines 56-62); it reports again only after it is re-connected
ObserverFires ==
  /\ mounted.alive
  /\ observer
  /\ SentinelRendered(view)
  /\ observer' = FALSE
  /\ st' = LoadMoreState(st, view)
  /\ requests' = requests (+) LoadMoreRequests(view)
  /\ UNCHANGED <<cacheVars, serverFav, envVars, mounted, view, timer,
                 pendingPersist, merged, done, lastMount, stale, used>>

\* What a page continuation passes to persistCache: the clips given, the
\* page's cursor, and the tag options of the closure cl joined with the page's
PageSnapshot(clips, page, cl) ==
  [clips             |-> clips,
   hasMoreFromServer |-> page.hasMore,
   nextOffset        |-> page.nextOffset,
   mainTagOptions    |-> MergeOptions(cl.mainTagOptions, MainFromClips(page.clips)),
   videoTagOptions   |-> MergeOptions(cl.videoTagOptions, VideoFromClips(page.clips)),
   subTagOptions     |-> MergeOptions(cl.subTagOptions, SubFromClips(page.clips)),
   positionOptions   |-> cl.positionOptions]

\* The state after the success branch of loadFirstPage (lines 170-187, 201)
FirstPageMerged(s, page) ==
  [s EXCEPT
     !.mainTagOptions    = MergeOptions(@, MainFromClips(page.clips)),
     !.videoTagOptions   = MergeOptions(@, VideoFromClips(page.clips)),
     !.subTagOptions     = MergeOptions(@, SubFromClips(page.clips)),
     !.clips             = page.clips,
     !.hasMoreFromServer = page.hasMore,
     !.nextOffset        = page.nextOffset,
     !.isLoading         = FALSE,
     !.touched           = TRUE]

\* The first-page request is answered 2xx (lines 167-196, 200-202)
FirstPageOk(r) ==
  /\ r \in BagToSet(requests)
  /\ r.kind = "first"
  /\ LET req  == r
         page == ServerPage(req.favoritesOnly, serverFav, PAGE_SIZE, req.offset)
         w    == persistCache(memoryCache, sessionStorage, req.favoritesOnly,
                              PageSnapshot(page.clips, page, req.cl), now)
     IN  /\ requests' = Take(requests, r)
         /\ IF Alive(req)
              THEN /\ st' = FirstPageMerged(st, page)
                   /\ memoryCache' = w.mem
                   /\ sessionStorage' = w.ss
                   /\ merged' = [ids |-> [i \in DOMAIN page.clips |-> page.clips[i].id],
                                  nextOffset |-> page.nextOffset]
                   /\ stale' = [stale EXCEPT ![req.favoritesOnly] = FALSE]
              ELSE UNCHANGED <<st, memoryCache, sessionStorage, merged, stale>>
  /\ UNCHANGED <<now, ticks, lastCall, writtenAt, serverFav, envVars, mounted, view,
                 timer, observer, pendingPersist, done, lastMount, used>>

\* fetchLibraryClips / fetchFavoriteClips throw on a non-2xx status
\* (part_001 lines 66-68, 79-81)
PageError(favoritesOnly) ==
  IF favoritesOnly THEN Msg("Failed to load favorite clips")
  ELSE Msg("Failed to load clips")

\* loadFirstPage without its finally branch: a failure leaves isLoading set
FirstPageFailKeepsLoading(r) ==
  /\ r \in BagToSet(requests)
  /\ r.kind = "first"
  /\ used.failures < MaxFailures
  /\ used' = [used EXCEPT !.failures = @ + 1]
  /\ requests' = Take(requests, r)
  /\ st' = IF Alive(r)
             THEN [st EXCEPT !.errorMessage = PageError(r.favoritesOnly)]
             ELSE st
  /\ UNCHANGED <<cacheVars, serverFav, envVars, mounted, view, timer, observer,
                 pendingPersist, merged, done, lastMount, stale>>

\* The first-page request is answered non-2xx (lines 197-202)
FirstPageFail(r) ==
  /\ r \in BagToSet(requests)
  /\ r.kind = "first"
  /\ used.failures < MaxFailures
  /\ used' = [used EXCEPT !.failures = @ + 1]
  /\ requests' = Take(requests, r)
  /\ st' = IF Alive(r)
             THEN [st EXCEPT !.errorMessage = PageError(r.favoritesOnly),
                             !.isLoading = FALSE]
             ELSE st
  /\ UNCHANGED <<cacheVars, serverFav, envVars, mounted, view, timer, observer,
                 pendingPersist, merged, done, lastMount, stale>>

\* The state after the success branch of loadMoreClips (lines 220-240, 253);
\* cl is the render the call closed over
MoreMerged(s, page, cl) ==
  [s EXCEPT
     !.clips             = @ \o page.clips,
     !.mainTagOptions    = MergeOptions(cl.mainTagOptions, MainFromClips(page.clips)),
     !.videoTagOptions   = MergeOptions(cl.videoTagOptions, VideoFromClips(page.clips)),
     !.subTagOptions     = MergeOptions(cl.subTagOptions, SubFromClips(page.clips)),
     !.hasMoreFromServer = page.hasMore,
     !.nextOffset        = page.nextOffset,
     !.isLoadingMore     = FALSE,
     !.touched           = TRUE]

\* const nextClips = [...clips, ...page.clips] (line 234)
MoreNextClips(cl, page) == cl.clips \o page.clips

\* A load-more request is answered 2xx (lines 217-249, 253).  There is no
\* still-mounted guard: the cache is written whether or not the instance is
\* alive; setState on an unmounted instance does nothing.
MoreOk(r) ==
  /\ r \in BagToSet(requests)
  /\ r.kind = "more"
  /\ LET req  == r
         page == ServerPage(req.favoritesOnly, serverFav, PAGE_SIZE, req.offset)
         w    == persistCache(memoryCache, sessionStorage, req.favoritesOnly,
                              PageSnapshot(MoreNextClips(req.cl, page), page, req.cl),
                              now)
     IN  /\ requests' = Take(requests, r)
         /\ memoryCache' = w.mem
         /\ sessionStorage' = w.ss
         /\ IF Alive(req)
              THEN /\ st' = MoreMerged(st, page, req.cl)
                   /\ merged' =
                        IF merged = Null THEN Null
                        ELSE [ids |-> merged.ids \o
                                 [i \in DOMAIN page.clips |-> page.clips[i].id],
                              nextOffset |-> page.nextOffset]
              ELSE UNCHANGED <<st, merged>>
  /\ UNCHANGED <<now, ticks, lastCall, writtenAt, serverFav, envVars, mounted, view,
                 timer, observer, pendingPersist, done, lastMount, stale, used>>

\* loadMoreClips with a catch branch that also stops the pagination
MoreFailStopsPaging(r) ==
  /\ r \in BagToSet(requests)
  /\ r.kind = "more"
  /\ used.failures < MaxFailures
  /\ used' = [used EXCEPT !.failures = @ + 1]
  /\ requests' = Take(requests, r)
  /\ st' = IF Alive(r)
             THEN [st EXCEPT !.errorMessage = PageError(r.favoritesOnly),
                             !.isLoadingMore = FALSE,
                             !.hasMoreFromServer = FALSE]
             ELSE st
  /\ UNCHANGED <<cacheVars, serverFav, envVars, mounted, view, timer, observer,
                 pendingPersist, merged, done, lastMount, stale>>

\* A load-more request is answered non-2xx (lines 250-254)
MoreFail(r) ==
  /\ r \in BagToSet(requests)
  /\ r.kind = "more"
  /\ used.failures < MaxFailures
  /\ used' = [used EXCEPT !.failures = @ + 1]
  /\ requests' = Take(requests, r)
  /\ st' = IF Alive(r)
             THEN [st EXCEPT !.errorMessage = PageError(r.favoritesOnly),
                             !.isLoadingMore = FALSE]
             ELSE st
  /\ UNCHANGED <<cacheVars, serverFav, envVars, mounted, view, timer, observer,
                 pendingPersist, merged, done, lastMount, stale>>

\* The metadata request is answered 2xx (lines 131-136)
MetaOk(r) ==
  /\ r \in BagToSet(requests)
  /\ r.kind = "meta"
  /\ requests' = Take(requests, r)
  /\ st' = IF Alive(r)
             THEN [st EXCEPT !.mainTagOptions  = ServerMeta.mainTagOptions,
                             !.videoTagOptions = ServerMeta.videoTagOptions,
                             !.subTagOptions   = ServerMeta.subTagOptions,
                             !.positionOptions = ServerMeta.positionOptions,
                             !.touched         = TRUE]
             ELSE st
  /\ UNCHANGED <<cacheVars, serverFav, envVars, mounted, view, timer, observer,
                 pendingPersist, merged, done, lastMount, stale, used>>

\* The metadata request is answered non-2xx (lines 137-140, part_001 line 54)
MetaFail(r) ==
  /\ r \in BagToSet(requests)
  /\ r.kind = "meta"
  /\ used.failures < MaxFailures
  /\ used' = [used EXCEPT !.failures = @ + 1]
  /\ requests' = Take(requests, r)
  /\ st' = IF Alive(r)
             THEN [st EXCEPT !.errorMessage = Msg("Failed to load library metadata")]
             ELSE st
  /\ UNCHANGED <<cacheVars, serverFav, envVars, mounted, view, timer, observer,
                 pendingPersist, merged, done, lastMount, stale>>

\* A click on a clip card of the rendered list: onSelectClip(clip)
\* (clip-list.tsx line 180, library.tsx line 493).  React commits the update
\* of a click before the event returns.
SelectClip(c) ==
  /\ used.clicks < MaxClicks
  /\ mounted.alive
  /\ SentinelRendered(view)
  /\ c \in SetOf(view.clips)
  /\ c # view.selectedClip
  /\ Commit([st EXCEPT !.selectedClip = c])
  /\ lastMount' = Null
  /\ UNCHANGED <<now, ticks, lastCall, writtenAt, serverFav, envVars, mounted,
                 requests, merged, done, stale>>
  /\ used' = [used EXCEPT !.clicks = @ + 1]

\* A click on the close button of the detail panel (line 518)
CloseDetail ==
  /\ used.clicks < MaxClicks
  /\ mounted.alive
  /\ view.selectedClip # Null
  /\ Commit([st EXCEPT !.selectedClip = Null])
  /\ lastMount' = Null
  /\ UNCHANGED <<now, ticks, lastCall, writtenAt, serverFav, envVars, mounted,
                 requests, merged, done, stale>>
  /\ used' = [used EXCEPT !.clicks = @ + 1]

\* An optimistic step that sets the flag of every clip of the list
OptimisticFlipsAll(s, clip) ==
  [s EXCEPT !.clips = [i \in DOMAIN @ |-> [@[i] EXCEPT !.isFavorite = ~clip.isFavorite]],
            !.selectedClip = SetSelectedFavorite(@, clip.id, ~clip.isFavorite),
            !.touched = TRUE]

\* The optimistic step of handleToggleFavorite(clip) (lines 369-373)
Optimistic(s, clip) ==
  [s EXCEPT !.clips = SetFavorite(@, clip.id, ~clip.isFavorite),
            !.selectedClip = SetSelectedFavorite(@, clip.id, ~clip.isFavorite),
            !.touched = TRUE]

\* A click on the favorite button of the detail panel (line 847): the panel
\* shows the selected clip of the last commit, and handleToggleFavorite is the
\* one of that render (lines 368-375)
ToggleFavorite ==
  /\ mounted.alive
  /\ used.clicks < MaxClicks
  /\ view.selectedClip # Null
  /\ used' = [used EXCEPT !.clicks = @ + 1]
  /\ requests' = Put(requests,
       FavoriteRequest(mounted.favoritesOnly,
                       view.selectedClip.id, ~view.selectedClip.isFavorite,
                       Closure(view)))
  /\ Commit(Optimistic(st, view.selectedClip))
  /\ lastMount' = Null
  /\ UNCHANGED <<now, ticks, lastCall, writtenAt, serverFav, envVars, mounted,
                 merged, done, stale>>

\* What handleToggleFavorite passes to persistCache: the clips given, the rest
\* from the render cl it closed over (lines 381-389, 396-404)
ToggleSnapshot(clips, cl) ==
  [clips             |-> clips,
   hasMoreFromServer |-> cl.hasMoreFromServer,
   nextOffset        |-> cl.nextOffset,
   mainTagOptions    |-> cl.mainTagOptions,
   videoTagOptions   |-> cl.videoTagOptions,
   subTagOptions     |-> cl.subTagOptions,
   positionOptions   |-> cl.positionOptions]

\* The favorites-only removal without setSelectedClip(null)
RemovedKeepsSelection(s, id) ==
  [s EXCEPT !.clips = WithoutId(@, id),
            !.touched = TRUE]

\* The state after the favorites-only removal (lines 378-391)
Removed(s, id) ==
  [s EXCEPT !.selectedClip = Null,
            !.clips = WithoutId(@, id),
            !.touched = TRUE]

\* React runs a setClips updater at once when the component has no update
\* queued, and otherwise when it next processes the queue
RunsUpdaterNow == st = view /\ pendingPersist = <<>> /\ st.selectedClip = Null

\* The two tiers after the success branch of handleToggleFavorite
\* (lines 376-405) of request req at time t
ToggleCaches(mem, ss, req, t) ==
  LET c == clearLibraryCaches(mem, ss)
  IN  IF req.favoritesOnly /\ ~req.value
        THEN IF Alive(req) /\ RunsUpdaterNow
               THEN persistCache(c.mem, c.ss, req.favoritesOnly,
                      ToggleSnapshot(WithoutId(st.clips, req.clipId), req.cl), t)
               ELSE c
        ELSE persistCache(c.mem, c.ss, req.favoritesOnly,
               ToggleSnapshot(SetFavorite(req.cl.clips, req.clipId, req.value),
                              req.cl), t)

\* setClipFavorite is answered 2xx: the server has stored the value
\* (lines 375-405).  No still-mounted guard here either.
FavoriteOk(r) ==
  /\ r \in BagToSet(requests)
  /\ r.kind = "favorite"
  /\ LET req == r
         w   == ToggleCaches(memoryCache, sessionStorage, req, now)
     IN  /\ requests' = Take(requests, r)
         /\ serverFav' = [serverFav EXCEPT ![req.clipId] = req.value]
         /\ memoryCache' = w.mem
         /\ sessionStorage' = w.ss
         /\ done' = done \cup {[id |-> req.clipId, value |-> req.value,
                                  ok |-> TRUE]}
         /\ IF req.favoritesOnly /\ ~req.value /\ Alive(req)
              THEN /\ st' = Removed(st, req.clipId)
                   /\ pendingPersist' =
                        IF RunsUpdaterNow THEN pendingPersist
                        ELSE Append(pendingPersist,
                               ToggleSnapshot(WithoutId(st.clips, req.clipId), req.cl))
              ELSE UNCHANGED <<st, pendingPersist>>
  /\ stale' = [f \in BOOLEAN |-> TRUE]
  /\ UNCHANGED <<now, ticks, lastCall, writtenAt, envVars, mounted, view, timer,
                 observer, merged, lastMount, used>>

\* The state after the catch branch of handleToggleFavorite (lines 406-413)
RolledBack(s, id, next) ==
  [s EXCEPT !.clips = SetFavorite(@, id, ~next),
            !.selectedClip = SetSelectedFavorite(@, id, ~next),
            !.touched = TRUE]

\* setClipFavorite is answered non-2xx: the server has stored nothing
FavoriteFail(r) ==
  /\ r \in BagToSet(requests)
  /\ r.kind = "favorite"
  /\ LET req == r
     IN  /\ requests' = Take(requests, r)
         /\ done' = done \cup {[id |-> req.clipId, value |-> req.value,
                                  ok |-> FALSE]}
         /\ st' = IF Alive(req) THEN RolledBack(st, req.clipId, req.value)
                  ELSE st
  /\ UNCHANGED <<cacheVars, serverFav, envVars, mounted, view, timer, observer,
                 pendingPersist, merged, lastMount, stale, used>>

\* The user waits: one time-to-live passes.  Requests are answered and
\* updates are rendered well within that time.
Wait ==
  /\ used.waits < MaxWaits
  /\ requests = EmptyBag
  /\ st = view
  /\ used' = [used EXCEPT !.waits = @ + 1]
  /\ now' = now + CACHE_TTL_MS
  /\ UNCHANGED <<ticks, memoryCache, sessionStorage, lastCall, writtenAt, ctlVars>>

-----------------------------------------------------------------------------
(* The Remote Data Client: part_001 lines 49-102 *)

ClientFunctions ==
  {"fetchLibraryMeta", "fetchLibraryClips", "fetchFavoriteClips",
   "setClipFavorite", "fetchVideos"}

\* The arguments a function is called with; limit defaults to DefaultLimit
ClientArgs(fn) ==
  CASE fn \in {"fetchLibraryClips", "fetchFavoriteClips"} ->
         [limit : {PAGE_SIZE, DefaultLimit}, offset : 0 .. NumClips]
    [] fn = "setClipFavorite" -> [clipId : ClipIds, value : BOOLEAN]
    [] OTHER -> {Null}

\* The request a function passes to fetch()
Endpoint(fn, args) ==
  CASE fn = "fetchLibraryMeta" ->
         [method |-> "GET", path |-> "/api/library/meta", query |-> Null]
    [] fn = "fetchLibraryClips" ->
         [method |-> "GET", path |-> "/api/library/clips", query |-> args]
    [] fn = "fetchFavoriteClips" ->
         [method |-> "GET", path |-> "/api/library/favorites", query |-> args]
    [] fn = "setClipFavorite" ->
         [method |-> "POST", path |-> <<"/api/clips", args.clipId, "favorite">>,
          query |-> [value |-> args.value]]
    [] fn = "fetchVideos" ->
         [method |-> "GET", path |-> "/api/library/videos", query |-> Null]

\* The message of the Error a function throws when response.ok is false
FailureMessage(fn) ==
  CASE fn = "fetchLibraryMeta"   -> "Failed to load library metadata"
    [] fn = "fetchLibraryClips"  -> "Failed to load clips"
    [] fn = "fetchFavoriteClips" -> "Failed to load favorite clips"
    [] fn = "setClipFavorite"    -> "Failed to update favorite"
    [] fn = "fetchVideos"        -> "Failed to load videos"

\* The status codes a response may carry
Statuses == {200, 204, 299, 300, 404, 500}

\* response.ok
ResponseOk(status) == status >= 200 /\ status <= 299

\* setClipFavorite does not read the body of the response
ReadsBody(fn) == fn # "setClipFavorite"

Fulfilled     == [rejected |-> FALSE, message |-> ""]
Rejected(msg) == [rejected |-> TRUE, message |-> msg]

\* A client that asks again when the status is not a success
AfterResponseRetrying(c, status) ==
  IF ~ResponseOk(status)
    THEN [c EXCEPT !.fetches = Append(@, Endpoint(c.fn, c.args))]
  ELSE IF ReadsBody(c.fn)
    THEN [c EXCEPT !.response = [status |-> status], !.awaiting = "body"]
  ELSE [c EXCEPT !.response = [status |-> status], !.awaiting = "settled",
                 !.outcome = Fulfilled]

\* The call once fetch() has resolved with a response of the given status
AfterResponse(c, status) ==
  IF ~ResponseOk(status)
    THEN [c EXCEPT !.response = [status |-> status], !.awaiting = "settled",
                   !.outcome = Rejected(FailureMessage(c.fn))]
  ELSE IF ReadsBody(c.fn)
    THEN [c EXCEPT !.response = [status |-> status], !.awaiting = "body"]
  ELSE [c EXCEPT !.response = [status |-> status], !.awaiting = "settled",
                 !.outcome = Fulfilled]

ClientUnchanged ==
  UNCHANGED <<cacheVars, serverFav, storage, clipVideo, mounted, st, view,
              timer, observer, pendingPersist, requests, merged, done,
              lastMount, stale, used>>

\* A caller calls the function: it calls fetch() once and awaits the response
ClientCall(fn, args) ==
  /\ client = Null
  /\ client' = [fn |-> fn, args |-> args, fetches |-> <<Endpoint(fn, args)>>,
                awaiting |-> "response", response |-> Null, outcome |-> Null]
  /\ ClientUnchanged

\* fetch() resolves with a response
FetchResolves(status) ==
  /\ client # Null
  /\ client.awaiting = "response"
  /\ client' = AfterResponse(client, status)
  /\ ClientUnchanged

\* fetch() rejects: the request did not reach the server
FetchRejects ==
  /\ client # Null
  /\ client.awaiting = "response"
  /\ client' = [client EXCEPT !.awaiting = "settled",
                              !.outcome = Rejected("TypeError")]
  /\ ClientUnchanged

\* response.json() settles: the body is JSON or it is not
BodySettles(valid) ==
  /\ client # Null
  /\ client.awaiting = "body"
  /\ client' = [client EXCEPT !.awaiting = "settled",
                              !.outcome = IF valid THEN Fulfilled
                                          ELSE Rejected("SyntaxError")]
  /\ ClientUnchanged

\* The caller has the result
ClientReturns ==
  /\ client # Null
  /\ client.awaiting = "settled"
  /\ client' = Null
  /\ ClientUnchanged

-----------------------------------------------------------------------------
(* The ClipVideo page: clip-video.tsx *)

stageSequence == <<"fetching", "transcribing", "chunking", "scoring", "exporting">>

ProcessingStage == {"idle", "complete"} \cup {stageSequence[k] : k \in 1 .. Len(stageSequence)}

\* (currentIndex / stageSequence.length) * 100
ProgressAt(currentIndex) == (currentIndex * 100) \div Len(stageSequence)

\* Math.floor(Math.random() * 5) + 8
GeneratedCounts == 8 .. 12

\* A Generate Clips button that only asks for a URL
DisabledWithoutUrlOnly(videoUrl, currentStage) == videoUrl = ""

\* The disabled attribute of the Generate Clips button
Disabled(videoUrl, currentStage) ==
  videoUrl = "" \/ (currentStage # "idle" /\ currentStage # "complete")

\* The page when it is not on screen.  instance counts the instances mounted
\* so far, runs the clicks of Generate Clips; intervals are the timers of
\* setInterval that were not cleared: those of an instance that was
\* unmounted go on firing.
ClipVideoClosed(instance, runs, intervals) ==
  [open |-> FALSE, instance |-> instance, videoUrl |-> "",
   currentStage |-> "idle", progress |-> 0, generatedClipsCount |-> 0,
   shownStage |-> "idle", runs |-> runs, intervals |-> intervals]

GenerateUnchanged ==
  UNCHANGED <<cacheVars, serverFav, storage, client, mounted, st, view,
              timer, observer, pendingPersist, requests, merged, done,
              lastMount, stale, used>>

\* The route shows the page: a new instance with the initial state
OpenClipVideo ==
  /\ ~clipVideo.open
  /\ clipVideo.instance < MaxOpens
  /\ clipVideo' = [ClipVideoClosed(clipVideo.instance + 1, clipVideo.runs,
                                   clipVideo.intervals) EXCEPT !.open = TRUE]
  /\ GenerateUnchanged

\* The route leaves the page: the instance and its state are gone, its
\* interval is not cleared
CloseClipVideo ==
  /\ clipVideo.open
  /\ clipVideo' = ClipVideoClosed(clipVideo.instance, clipVideo.runs,
                                  clipVideo.intervals)
  /\ GenerateUnchanged

\* onChange of the URL input (committed with the event)
SetVideoUrl(url) ==
  /\ clipVideo.open
  /\ url # clipVideo.videoUrl
  /\ clipVideo' = [clipVideo EXCEPT !.videoUrl = url]
  /\ GenerateUnchanged

\* A click of Generate Clips; the button is the one of the last render.  The
\* updates of a click are committed with the event.
handleGenerate ==
  /\ clipVideo.open
  /\ clipVideo.runs < MaxRuns
  /\ ~Disabled(clipVideo.videoUrl, clipVideo.shownStage)
  /\ clipVideo' =
       [clipVideo EXCEPT
          !.currentStage = stageSequence[1],
          !.shownStage   = stageSequence[1],
          !.progress     = 0,
          !.runs         = @ + 1,
          !.intervals    = @ \cup {[run |-> clipVideo.runs + 1,
                                    owner |-> clipVideo.instance,
                                    currentIndex |-> 0]}]
  /\ GenerateUnchanged

\* The interval of a run fires.  The updates of an interval whose instance
\* was unmounted change nothing; those of the mounted instance are queued
\* and shown by the next render.
IntervalFires(run) ==
  \E i \in clipVideo.intervals :
    /\ i.run = run
    /\ LET currentIndex == i.currentIndex + 1
           mine == clipVideo.open /\ i.owner = clipVideo.instance
       IN  IF currentIndex < Len(stageSequence)
             THEN clipVideo' =
                    [clipVideo EXCEPT
                       !.intervals    = (@ \ {i}) \cup
                                          {[i EXCEPT !.currentIndex = currentIndex]},
                       !.currentStage = IF mine THEN stageSequence[currentIndex + 1] ELSE @,
                       !.progress     = IF mine THEN ProgressAt(currentIndex) ELSE @]
             ELSE \E count \in GeneratedCounts :
                    clipVideo' =
                      [clipVideo EXCEPT
                         !.intervals           = @ \ {i},
                         !.currentStage        = IF mine THEN "complete" ELSE @,
                         !.progress            = IF mine THEN 100 ELSE @,
                         !.generatedClipsCount = IF mine THEN count ELSE @]
    /\ GenerateUnchanged

\* React renders the page with the queued updates
RenderClipVideo ==
  /\ clipVideo.open
  /\ clipVideo.shownStage # clipVideo.currentStage
  /\ clipVideo' = [clipVideo EXCEPT !.shownStage = clipVideo.currentStage]
  /\ GenerateUnchanged

-----------------------------------------------------------------------------
(* The page in the browser *)

\* Clip 1 is not a favorite, the others are
InitialFav == [id \in ClipIds |-> id # 1]

Init ==
  /\ now = 0
  /\ ticks = 0
  /\ memoryCache = [k \in Keys |-> Null]
  /\ sessionStorage = [k \in Keys |-> Null]
  /\ lastCall = Null
  /\ writtenAt = [k \in Keys |-> Null]
  /\ serverFav = InitialFav
  /\ mounted = [alive |-> FALSE, favoritesOnly |-> FALSE]
  /\ st = InitialState
  /\ view = InitialState
  /\ timer = FALSE
  /\ observer = FALSE
  /\ pendingPersist = <<>>
  /\ requests = EmptyBag
  /\ merged = Null
  /\ done = {}
  /\ lastMount = Null
  /\ stale = [f \in BOOLEAN |-> FALSE]
  /\ storage = "ok"
  /\ client = Null
  /\ clipVideo = ClipVideoClosed(0, 0, {})
  /\ used = [mounts |-> 0, waits |-> 0, clicks |-> 0, failures |-> 0, writes |-> 0]

\* Everything that can happen to the page
Next ==
  \/ \E f \in BOOLEAN : Mount(f)
  \/ Render
  \/ TimerFires
  \/ ObserverFires
  \/ \E r \in BagToSet(requests) : FirstPageOk(r)
  \/ \E r \in BagToSet(requests) : FirstPageFail(r)
  \/ \E r \in BagToSet(requests) : MoreOk(r)
  \/ \E r \in BagToSet(requests) : MoreFail(r)
  \/ \E r \in BagToSet(requests) : MetaOk(r)
  \/ \E r \in BagToSet(requests) : MetaFail(r)
  \/ \E c \in SetOf(view.clips) : SelectClip(c)
  \/ CloseDetail
  \/ ToggleFavorite
  \/ \E r \in BagToSet(requests) : FavoriteOk(r)
  \/ \E r \in BagToSet(requests) : FavoriteFail(r)
  \/ Wait

Spec == Init /\ [][Next]_vars

\* The user visits the library routes and waits, and never clicks
NextPaging ==
  \/ \E f \in BOOLEAN : Mount(f)
  \/ Render
  \/ TimerFires
  \/ ObserverFires
  \/ \E r \in BagToSet(requests) : FirstPageOk(r)
  \/ \E r \in BagToSet(requests) : FirstPageFail(r)
  \/ \E r \in BagToSet(requests) : MoreOk(r)
  \/ \E r \in BagToSet(requests) : MoreFail(r)
  \/ \E r \in BagToSet(requests) : MetaOk(r)
  \/ \E r \in BagToSet(requests) : MetaFail(r)
  \/ Wait

SpecPaging == Init /\ [][NextPaging]_vars

\* The user opens one library route and stays on it; every page and
\* metadata request is answered 2xx
NextFavorite ==
  \/ \E f \in BOOLEAN : ~mounted.alive /\ Mount(f)
  \/ Render
  \/ TimerFires
  \/ ObserverFires
  \/ \E r \in BagToSet(requests) : FirstPageOk(r)
  \/ \E r \in BagToSet(requests) : MoreOk(r)
  \/ \E r \in BagToSet(requests) : MetaOk(r)
  \/ \E c \in SetOf(view.clips) : SelectClip(c)
  \/ CloseDetail
  \/ ToggleFavorite
  \/ \E r \in BagToSet(requests) : FavoriteOk(r)
  \/ \E r \in BagToSet(requests) : FavoriteFail(r)

SpecFavorite == Init /\ [][NextFavorite]_vars

\* The user toggles favorites and moves between the two library routes;
\* every request is answered 2xx
NextRevisit ==
  \/ \E f \in BOOLEAN : Mount(f)
  \/ Render
  \/ TimerFires
  \/ ObserverFires
  \/ \E r \in BagToSet(requests) : FirstPageOk(r)
  \/ \E r \in BagToSet(requests) : MoreOk(r)
  \/ \E r \in BagToSet(requests) : MetaOk(r)
  \/ \E c \in SetOf(view.clips) : SelectClip(c)
  \/ ToggleFavorite
  \/ \E r \in BagToSet(requests) : FavoriteOk(r)

SpecRevisit == Init /\ [][NextRevisit]_vars

\* The user moves between the library routes while the prefetch timer loads
\* the pages; the sentinel never comes near the viewport and every request is
\* answered 2xx
NextResume ==
  \/ \E f \in BOOLEAN : Mount(f)
  \/ Render
  \/ TimerFires
  \/ \E r \in BagToSet(requests) : FirstPageOk(r)
  \/ \E r \in BagToSet(requests) : MoreOk(r)
  \/ \E r \in BagToSet(requests) : MetaOk(r)
  \/ Wait

SpecResume == Init /\ [][NextResume]_vars

\* The session store starts or stops throwing: the quota of the origin is
\* used up or freed, the browser denies or grants access
StorageChanges(mode) ==
  /\ mode # storage
  /\ storage' = mode
  /\ UNCHANGED <<cacheVars, serverFav, client, clipVideo, mounted, st, view,
                 timer, observer, pendingPersist, requests, merged, done,
                 lastMount, stale, used>>

\* Before the library is opened, the key of a variant holds a text that is
\* not JSON
StorageCorrupted(f) ==
  /\ ~mounted.alive
  /\ storage = "ok"
  /\ sessionStorage[cacheKey(f)] # Unparsable
  /\ sessionStorage' = [sessionStorage EXCEPT ![cacheKey(f)] = Unparsable]
  /\ UNCHANGED <<now, ticks, memoryCache, lastCall, writtenAt, ctlVars, used>>

\* The library with a session store that may throw or hold text that does
\* not parse; every request is answered 2xx
NextStorage ==
  \/ \E mode \in StorageModes : StorageChanges(mode)
  \/ \E f \in BOOLEAN : StorageCorrupted(f)
  \/ \E f \in BOOLEAN : Mount(f)
  \/ Render
  \/ TimerFires
  \/ \E r \in BagToSet(requests) : FirstPageOk(r)
  \/ \E r \in BagToSet(requests) : MoreOk(r)
  \/ \E r \in BagToSet(requests) : MetaOk(r)

SpecStorage == Init /\ [][NextStorage]_vars

\* Calls of the Remote Data Client, one at a time, with every outcome of the
\* request
NextClient ==
  \/ \E fn \in ClientFunctions : \E args \in ClientArgs(fn) : ClientCall(fn, args)
  \/ \E status \in Statuses : FetchResolves(status)
  \/ FetchRejects
  \/ \E valid \in BOOLEAN : BodySettles(valid)
  \/ ClientReturns

SpecClient == Init /\ [][NextClient]_vars

\* The ClipVideo page: opened, closed, a URL typed or erased, runs started.
\* A timer of setInterval that is not cleared fires again and again.
NextGenerate ==
  \/ OpenClipVideo
  \/ CloseClipVideo
  \/ \E url \in {"", "https://youtube.com/watch?v=1"} : SetVideoUrl(url)
  \/ handleGenerate
  \/ \E run \in 1 .. MaxRuns : IntervalFires(run)
  \/ RenderClipVideo

SpecGenerate ==
  Init /\ [][NextGenerate]_vars /\ \A run \in 1 .. MaxRuns : WF_vars(IntervalFires(run))

-----------------------------------------------------------------------------
(* The cache store driven directly, one call at a time *)

\* What the calls of the cache-only runs persist: a one-clip list of the
\* variant, or an empty list, with the rest as the first render has it
CachePayloads(favoritesOnly) ==
  {ToggleSnapshot(<<[id |-> 1, isFavorite |-> favoritesOnly]>>,
                  Closure(InitialState)),
   ToggleSnapshot(<<>>, Closure(InitialState))}

Call(op, favoritesOnly, value) ==
  [op |-> op, favoritesOnly |-> favoritesOnly, at |-> now, value |-> value,
   mem |-> memoryCache, ss |-> sessionStorage]

\* persistCache(next) -> writeCachedState(favoritesOnly, {...next, cachedAt: Date.now()})
CacheWrite(f, next) ==
  /\ used.writes < MaxWrites
  /\ used' = [used EXCEPT !.writes = @ + 1]
  /\ LET w == persistCache(memoryCache, sessionStorage, f, next, now)
     IN  /\ memoryCache' = w.mem
         /\ sessionStorage' = w.ss
  /\ writtenAt' = [writtenAt EXCEPT ![cacheKey(f)] = [at |-> now]]
  /\ lastCall' = Call("write", f, next)
  /\ UNCHANGED <<now, ticks, ctlVars>>

\* readCachedState(favoritesOnly)
CacheRead(f) ==
  /\ LET r == readCachedState(memoryCache, sessionStorage, f, now)
     IN  /\ memoryCache' = r.mem
         /\ sessionStorage' = r.ss
         /\ lastCall' = Call("read", f, r.value)
  /\ UNCHANGED <<now, ticks, writtenAt, ctlVars, used>>

\* clearLibraryCaches()
CacheClear ==
  /\ LET c == clearLibraryCaches(memoryCache, sessionStorage)
     IN  /\ memoryCache' = c.mem
         /\ sessionStorage' = c.ss
  /\ writtenAt' = [k \in Keys |-> Null]
  /\ lastCall' = Call("clear", FALSE, Null)
  /\ UNCHANGED <<now, ticks, ctlVars, used>>

\* The tab is reloaded: the module is evaluated again (line 25), the
\* session store is kept
CacheReload ==
  /\ memoryCache' = [k \in Keys |-> Null]
  /\ lastCall' = Null
  /\ UNCHANGED <<now, ticks, sessionStorage, writtenAt, ctlVars, used>>

\* Date.now() moves on by d milliseconds
CacheTick(d) ==
  /\ ticks < MaxTicks
  /\ ticks' = ticks + 1
  /\ now' = now + d
  /\ lastCall' = Null
  /\ UNCHANGED <<memoryCache, sessionStorage, writtenAt, ctlVars, used>>

NextCache ==
  \/ \E f \in BOOLEAN : \E next \in CachePayloads(f) : CacheWrite(f, next)
  \/ \E f \in BOOLEAN : CacheRead(f)
  \/ CacheClear
  \/ CacheReload
  \/ \E d \in {1, CACHE_TTL_MS - 1} : CacheTick(d)

SpecCache == Init /\ [][NextCache]_vars

-----------------------------------------------------------------------------
(* Filtering and sorting: library.tsx lines 281-349 *)

\* The fields of a clip the filter reads are fixed by its id, like its tags
Types == {"Concept", "Technique"}

TypeOf(id) == IF id % 2 = 1 THEN "Concept" ELSE "Technique"

\* Clips 1 and 3 have the same duration
DurationOf(id) == IF id % 2 = 1 THEN 30 ELSE 10 + id

\* position?: string | null
PositionOf(id) == IF id % 3 = 0 THEN Null ELSE [name |-> id % 3]

\* A piece of text: a word, in lower or upper case
Word(n, upper) == [word |-> n, upper |-> upper]

toLowerCase(text) == [text EXCEPT !.upper = FALSE]

\* a.includes(b), on one-word texts
includes(a, b) == a = b

\* The title, the summary and the general-purpose tags of a clip
TitleOf(id)   == Word(id, TRUE)
SummaryOf(id) == Word(0, FALSE)
TagsOf(id)    == IF id % 2 = 0 THEN <<Word(7, TRUE)>> ELSE <<>>

\* array.some((tag) => selected.has(tag))
MatchesEvery(tags, selected) == \A i \in DOMAIN tags : tags[i] \in selected

MatchesSome(tags, selected) == \E i \in DOMAIN tags : tags[i] \in selected

\* The comparator of result.sort (lines 329, 332)
Compare(a, b, sortMode) ==
  IF sortMode = "shortest" THEN DurationOf(a.id) - DurationOf(b.id)
  ELSE DurationOf(b.id) - DurationOf(a.id)

RECURSIVE InsertUnstable(_, _, _)
\* An insertion that puts a clip before the clips that compare equal
InsertUnstable(sorted, clip, sortMode) ==
  IF sorted = <<>> THEN <<clip>>
  ELSE IF Compare(Head(sorted), clip, sortMode) < 0
    THEN <<Head(sorted)>> \o InsertUnstable(Tail(sorted), clip, sortMode)
  ELSE <<clip>> \o sorted

RECURSIVE Insert(_, _, _)
\* Array.prototype.sort is stable: a clip goes behind the clips that do not
\* compare greater
Insert(sorted, clip, sortMode) ==
  IF sorted = <<>> THEN <<clip>>
  ELSE IF Compare(Head(sorted), clip, sortMode) <= 0
    THEN <<Head(sorted)>> \o Insert(Tail(sorted), clip, sortMode)
  ELSE <<clip>> \o sorted

RECURSIVE ArraySort(_, _)
\* array.sort((a, b) => ...)
ArraySort(array, sortMode) ==
  IF array = <<>> THEN <<>>
  ELSE Insert(ArraySort(SubSeq(array, 1, Len(array) - 1), sortMode),
              array[Len(array)], sortMode)

\* The useMemo body of filteredClips: the array it returns, and the clips
\* array afterwards (the sort works in place, on the copy of line 282)
filteredClips(clips, searchQuery, selectedTypes, selectedMainTags, selectedVideoTags, selectedSubTags, selectedPositions, sortMode) ==
  LET copy == clips
      query == toLowerCase(searchQuery)
      searched ==
        IF searchQuery # Null
          THEN SelectSeq(copy, LAMBDA clip :
                 \/ includes(toLowerCase(TitleOf(clip.id)), query)
                 \/ includes(toLowerCase(SummaryOf(clip.id)), query)
                 \/ \E i \in DOMAIN TagsOf(clip.id) :
                      includes(toLowerCase(TagsOf(clip.id)[i]), query))
          ELSE copy
      typed ==
        IF selectedTypes # {}
          THEN SelectSeq(searched, LAMBDA clip : TypeOf(clip.id) \in selectedTypes)
          ELSE searched
      main ==
        IF selectedMainTags # {}
          THEN SelectSeq(typed, LAMBDA clip :
                 MatchesSome(MainTagsOf(clip.id), selectedMainTags))
          ELSE typed
      video ==
        IF selectedVideoTags # {}
          THEN SelectSeq(main, LAMBDA clip :
                 MatchesSome(VideoTagsOf(clip.id), selectedVideoTags))
          ELSE main
      sub ==
        IF selectedSubTags # {}
          THEN SelectSeq(video, LAMBDA clip :
                 MatchesSome(SubTagsOf(clip.id), selectedSubTags))
          ELSE video
      positioned ==
        IF selectedPositions # {}
          THEN SelectSeq(sub, LAMBDA clip :
                 /\ PositionOf(clip.id) # Null
                 /\ PositionOf(clip.id) \in selectedPositions)
          ELSE sub
      result ==
        IF sortMode \in {"shortest", "longest"}
          THEN ArraySort(positioned, sortMode)
          ELSE positioned
  IN  [result |-> result, clips |-> clips]

\* The clip lists the filter is applied to: up to MaxShown clips of the
\* server's, no clip twice, in any order
RECURSIVE ListsOf(_)
ListsOf(n) ==
  IF n = 0 THEN {<<>>}
  ELSE LET shorter == ListsOf(n - 1)
       IN  shorter \cup
             {Append(l, [id |-> id, isFavorite |-> InitialFav[id]]) :
                l \in {k \in shorter : Len(k) = n - 1},
                id \in ClipIds}

ClipLists ==
  {l \in ListsOf(MaxShown) : \A i, j \in DOMAIN l : i # j => l[i].id # l[j].id}

\* One render with the given list, search text, selections and sort mode; a
\* run of the filter holds one evaluation of the memo
FilterCall(clips, searchQuery, selectedTypes, selectedMainTags, selectedVideoTags, selectedSubTags, selectedPositions, sortMode) ==
  /\ lastCall = Null
  /\ lastCall' =
       [op                |-> "filter",
        clips             |-> clips,
        searchQuery       |-> searchQuery,
        selectedTypes     |-> selectedTypes,
        selectedMainTags  |-> selectedMainTags,
        selectedVideoTags |-> selectedVideoTags,
        selectedSubTags   |-> selectedSubTags,
        selectedPositions |-> selectedPositions,
        sortMode          |-> sortMode,
        value             |-> filteredClips(clips, searchQuery, selectedTypes,
                                selectedMainTags, selectedVideoTags,
                                selectedSubTags, selectedPositions, sortMode)]
  /\ UNCHANGED <<now, ticks, memoryCache, sessionStorage, writtenAt, ctlVars,
                 used>>

NextFilter ==
  /\ lastCall = Null
  /\ \E clips \in ClipLists, searchQuery \in {Null, Word(7, FALSE), Word(1, TRUE)},
        selectedTypes \in SUBSET Types, selectedMainTags \in SUBSET {1, 2},
        selectedVideoTags \in SUBSET {1, 2},
        selectedSubTags \in {{}, {2, 3}},
        selectedPositions \in {{}, {[name |-> 1]}},
        sortMode \in {"default", "shortest", "longest"} :
       FilterCall(clips, searchQuery, selectedTypes, selectedMainTags,
                  selectedVideoTags, selectedSubTags, selectedPositions,
                  sortMode)

SpecFilter == Init /\ [][NextFilter]_vars

-----------------------------------------------------------------------------
(* Properties *)

\* The page requests (first page or load-more) of the instance on screen
PageRequestsAlive ==
  {q \in BagToSet(requests) : q.kind \in {"first", "more"} /\ Alive(q)}

RequestsAlive == {q \in BagToSet(requests) : Alive(q)}

FavoriteRequests == {q \in BagToSet(requests) : q.kind = "favorite"}

Ids(clips) == [i \in DOMAIN clips |-> clips[i].id]

\* Every snapshot either tier holds, for either variant
CacheEntries ==
  {memoryCache[k] : k \in {k \in Keys : memoryCache[k] # Null}}
    \cup {JSONparse(sessionStorage[k]) :
            k \in {k \in Keys : sessionStorage[k] # Null}}

\* The controller is idle and everything queued is rendered
Idle == mounted.alive /\ st = view /\ ~st.isLoading /\ ~st.isLoadingMore

\* C1: at most one page request (first page or load-more) of the instance on
\* screen is outstanding at any time
OnePageFetchOutstanding == Copies(requests, PageRequestsAlive) <= 1

\* C2: when the only favorite toggles completed are failed toggles of a clip
\* from false to true and none is outstanding, the list entry and the selected
\* clip are back to false and no cache entry of either tier or variant holds
\* the clip with isFavorite = true
RollbackLeavesNoTrace ==
  \A id \in ClipIds :
    (/\ mounted.alive
     /\ done = {[id |-> id, value |-> TRUE, ok |-> FALSE]}
     /\ FavoriteRequests = {})
    => /\ \A i \in DOMAIN st.clips :
            st.clips[i].id = id => ~st.clips[i].isFavorite
       /\ st.selectedClip # Null /\ st.selectedClip.id = id
            => ~st.selectedClip.isFavorite
       /\ \A e \in CacheEntries : \A i \in DOMAIN e.clips :
            e.clips[i].id = id => ~e.clips[i].isFavorite

\* C3: once no favorite request is outstanding, every clip of the list has
\* the isFavorite value the server stores
ListAgreesWithServer ==
  (mounted.alive /\ FavoriteRequests = {})
    => \A i \in DOMAIN st.clips :
         st.clips[i].isFavorite = serverFav[st.clips[i].id]

\* C4: an activation that follows a successful favorite mutation (with no
\* first page of the variant served since) finds no cache entry and does not
\* hydrate
MutationForcesReload ==
  (lastMount # Null /\ lastMount.stale) => ~lastMount.hit

\* C5: readCachedState returns the entry written at time T exactly when
\* now - T < 10 minutes; from 10 minutes on it returns null and the
\* persistent entry of the key is gone
CacheTTL ==
  (lastCall # Null /\ lastCall.op = "read") =>
    LET key == cacheKey(lastCall.favoritesOnly)
        T   == writtenAt[key]
    IN  /\ lastCall.value # Null
             <=> (T # Null /\ lastCall.at - T.at < 10 * 60 * 1000)
        /\ lastCall.value # Null => lastCall.value.cachedAt = T.at
        /\ (T # Null /\ lastCall.at - T.at >= 10 * 60 * 1000)
             => lastCall.value = Null /\ sessionStorage[key] = Null

\* A read at exactly T + 10 minutes of an entry both tiers still held
CacheTTLWitness ==
  /\ lastCall # Null
  /\ lastCall.op = "read"
  /\ LET key == cacheKey(lastCall.favoritesOnly)
     IN  /\ writtenAt[key] # Null
         /\ lastCall.at - writtenAt[key].at = 10 * 60 * 1000
         /\ lastCall.mem[key] # Null
         /\ lastCall.ss[key] # Null
         /\ lastCall.value = Null

\* The entry of key k is not what it was before the last cache call
Changed(k) ==
  memoryCache[k] # lastCall.mem[k] \/ sessionStorage[k] # lastCall.ss[k]

\* C6 (as stated): a cache call that alters the entry of one variant leaves
\* the entry of the other variant unchanged in both tiers
VariantIsolation ==
  lastCall # Null =>
    \A f \in BOOLEAN : Changed(cacheKey(f)) => ~Changed(cacheKey(~f))

\* C6 (amended): writeCachedState and readCachedState of one variant leave
\* the entry of the other variant unchanged in both tiers; clearLibraryCaches
\* removes the entries of both variants from both tiers
KeyedCallsIsolated ==
  lastCall # Null =>
    /\ lastCall.op \in {"write", "read"}
         => ~Changed(cacheKey(~lastCall.favoritesOnly))
    /\ lastCall.op = "clear"
         => \A k \in Keys : memoryCache[k] = Null /\ sessionStorage[k] = Null

\* A write of one variant next to an entry of the other variant
KeyedCallsIsolatedWitness ==
  /\ lastCall # Null
  /\ lastCall.op = "write"
  /\ Changed(cacheKey(lastCall.favoritesOnly))
  /\ memoryCache[cacheKey(~lastCall.favoritesOnly)] # Null
  /\ sessionStorage[cacheKey(~lastCall.favoritesOnly)] # Null

\* C7: the pages merged into the instance on screen are the server's pages in
\* order (the list is a prefix of the server's list, as long as the cursor),
\* and every load-more request outstanding asks for the offset the last
\* merged page returned
PagesMergedInOrder ==
  (mounted.alive /\ merged # Null) =>
    LET list == ServerList(mounted.favoritesOnly, serverFav)
    IN  /\ Len(st.clips) <= Len(list)
        /\ Ids(st.clips) = SubSeq(list, 1, Len(st.clips))
        /\ st.nextOffset = Len(st.clips)
        /\ \A q \in PageRequestsAlive :
             q.kind = "more" => q.offset = merged.nextOffset

\* C8: the accumulated clip list never holds the same clip id twice
NoDuplicateIds ==
  \A i, j \in DOMAIN st.clips :
    i # j => st.clips[i].id # st.clips[j].id

\* C9: an instance that started from a cache miss, met no failed request and
\* is idle with hasMoreFromServer = false and no page request outstanding
\* holds all clips of the server's list, has no prefetch armed, and the cache
\* snapshot of its variant holds the same list with hasMoreFromServer = false
ExhaustedAndStopped ==
  (/\ Idle
   /\ merged # Null
   /\ used.failures = 0
   /\ ~st.hasMoreFromServer
   /\ PageRequestsAlive = {})
  => LET snapshot == memoryCache[cacheKey(mounted.favoritesOnly)]
     IN  /\ Ids(st.clips) = ServerList(mounted.favoritesOnly, serverFav)
         /\ ~timer
         /\ ~observer
         /\ snapshot # Null
         /\ snapshot.clips = st.clips
         /\ ~snapshot.hasMoreFromServer

\* C10 (as stated): an activation that hits the cache is idle with the cached
\* clips, cursor and hasMore flag, and has no network request outstanding
HitSkipsNetwork ==
  (lastMount # Null /\ lastMount.hit) =>
    /\ ~st.isLoading
    /\ st.clips = lastMount.cached.clips
    /\ st.nextOffset = lastMount.cached.nextOffset
    /\ st.hasMoreFromServer = lastMount.cached.hasMoreFromServer
    /\ RequestsAlive = {}

\* C10 (amended): an activation that hits the cache is idle with the cached
\* clips, cursor and hasMore flag and issues no clip-page request; the only
\* request it issues is the metadata fetch of every activation
HitSkipsPageFetch ==
  (lastMount # Null /\ lastMount.hit) =>
    /\ ~st.isLoading
    /\ st.clips = lastMount.cached.clips
    /\ st.nextOffset = lastMount.cached.nextOffset
    /\ st.hasMoreFromServer = lastMount.cached.hasMoreFromServer
    /\ RequestsAlive \subseteq {MetaRequest}
    /\ Copies(requests, RequestsAlive) <= 1

\* An activation that hydrated a non-empty list, its metadata fetch in flight
HitSkipsPageFetchWitness ==
  /\ lastMount # Null
  /\ lastMount.hit
  /\ lastMount.cached.clips # <<>>
  /\ st.clips = lastMount.cached.clips
  /\ MetaRequest \in RequestsAlive

\* C11: a failed first-page fetch of the instance on screen sets an error
\* message and isLoading = false, and leaves the clip list, the cursor, the
\* hasMore flag and both cache tiers as they were
FirstPageFailureKeepsData ==
  [][\A r \in BagToSet(requests) :
       (FirstPageFail(r) /\ Alive(r)) =>
         /\ st'.errorMessage # Null
         /\ ~st'.isLoading
         /\ st'.clips = st.clips
         /\ st'.nextOffset = st.nextOffset
         /\ st'.hasMoreFromServer = st.hasMoreFromServer
         /\ memoryCache' = memoryCache
         /\ sessionStorage' = sessionStorage]_vars

\* An activation that missed the cache and whose first page has failed
FirstPageFailureWitness ==
  /\ mounted.alive
  /\ lastMount # Null
  /\ ~lastMount.hit
  /\ st.errorMessage = PageError(mounted.favoritesOnly)
  /\ ~st.isLoading
  /\ st.clips = <<>>
  /\ PageRequestsAlive = {}

\* C12: a failed load-more of the instance on screen sets an error message
\* and isLoadingMore = false, and leaves the clip list, the cursor, the
\* hasMore flag, the option sets and both cache tiers as they were
LoadMoreFailureKeepsData ==
  [][\A r \in BagToSet(requests) :
       (MoreFail(r) /\ Alive(r)) =>
         /\ st'.errorMessage # Null
         /\ ~st'.isLoadingMore
         /\ st'.clips = st.clips
         /\ st'.nextOffset = st.nextOffset
         /\ st'.hasMoreFromServer = st.hasMoreFromServer
         /\ st'.mainTagOptions = st.mainTagOptions
         /\ st'.videoTagOptions = st.videoTagOptions
         /\ st'.subTagOptions = st.subTagOptions
         /\ st'.positionOptions = st.positionOptions
         /\ memoryCache' = memoryCache
         /\ sessionStorage' = sessionStorage]_vars

\* A list of one page whose load-more has failed
LoadMoreFailureWitness ==
  /\ mounted.alive
  /\ st.errorMessage = PageError(mounted.favoritesOnly)
  /\ st.clips # <<>>
  /\ st.hasMoreFromServer
  /\ ~st.isLoadingMore
  /\ PageRequestsAlive = {}
  /\ memoryCache[cacheKey(mounted.favoritesOnly)] # Null

\* C13: while the error of a failed page fetch is on screen, the background
\* prefetch is not armed: nothing but the user asks for the page again
NoAutomaticRetry ==
  (/\ mounted.alive
   /\ st = view
   /\ st.errorMessage = PageError(mounted.favoritesOnly))
  => ~timer

\* The tag values observed in the clips of a list
TagsSeen(Tags(_), clips) ==
  UNION {SetOf(Tags(clips[i].id)) : i \in DOMAIN clips}

\* C14: once the metadata fetch and the page loads of an instance that
\* started from a cache miss have all completed successfully, each of the
\* three tag-option sets is the union of the server-sent LibraryMeta values
\* and the tag values of the loaded clips
TagOptionsAreUnions ==
  (/\ mounted.alive
   /\ merged # Null
   /\ used.failures = 0
   /\ RequestsAlive = {})
  => /\ SetOf(st.mainTagOptions)
          = SetOf(ServerMeta.mainTagOptions) \cup TagsSeen(MainTagsOf, st.clips)
     /\ SetOf(st.videoTagOptions)
          = SetOf(ServerMeta.videoTagOptions) \cup TagsSeen(VideoTagsOf, st.clips)
     /\ SetOf(st.subTagOptions)
          = SetOf(ServerMeta.subTagOptions) \cup TagsSeen(SubTagsOf, st.clips)

\* C15: a successful unfavorite in favorites-only mode removes the clip from
\* the list (the other clips stay, in their order), clears the selection if
\* the clip was selected, and persists the reduced list to the favorites
\* entry (at once, or when React next processes the queued update); any other
\* successful toggle removes no clip
FavoritesOnlyRemoval ==
  [][/\ \A r \in BagToSet(requests) :
          (FavoriteOk(r) /\ Alive(r)) =>
            IF r.favoritesOnly /\ ~r.value
              THEN /\ st'.clips = SelectSeq(st.clips, LAMBDA c : c.id # r.clipId)
                   /\ (st.selectedClip # Null /\ st.selectedClip.id = r.clipId)
                        => st'.selectedClip = Null
                   /\ IF pendingPersist' = pendingPersist
                        THEN /\ memoryCache'[cacheKey(TRUE)] # Null
                             /\ memoryCache'[cacheKey(TRUE)].clips = st'.clips
                             /\ sessionStorage'[cacheKey(TRUE)]
                                  = JSONstringify(memoryCache'[cacheKey(TRUE)])
                        ELSE pendingPersist'[Len(pendingPersist')].clips = st'.clips
              ELSE st'.clips = st.clips
     /\ (Render /\ pendingPersist # <<>>) =>
          /\ memoryCache'[cacheKey(mounted.favoritesOnly)].clips
               = pendingPersist[Len(pendingPersist)].clips
          /\ sessionStorage'[cacheKey(mounted.favoritesOnly)]
               = JSONstringify(memoryCache'[cacheKey(mounted.favoritesOnly)])]_vars

\* The favorites list after clip 3 was unfavorited and removed from between
\* clips 2 and 4, rendered and persisted
FavoritesOnlyRemovalWitness ==
  /\ mounted.alive
  /\ mounted.favoritesOnly
  /\ [id |-> 3, value |-> FALSE, ok |-> TRUE] \in done
  /\ st = view
  /\ Ids(st.clips) = <<2, 4>>
  /\ st.selectedClip = Null
  /\ memoryCache[cacheKey(TRUE)] # Null
  /\ memoryCache[cacheKey(TRUE)].clips = st.clips

\* C16: a response to a request whose instance has been torn down changes
\* neither the controller state nor any cache entry of either tier
TornDownResponsesDiscarded ==
  [][(\E r \in BagToSet(requests) :
        ~Alive(r) /\ requests' = Take(requests, r))
      => /\ st' = st
         /\ memoryCache' = memoryCache
         /\ sessionStorage' = sessionStorage]_vars

\* The evaluation of the filter that has just returned
Filtered == lastCall # Null /\ lastCall.op = "filter"

\* The texts of a clip the search looks at
TextsOf(id) == {TitleOf(id), SummaryOf(id)} \cup SetOf(TagsOf(id))

\* The search text and every facet with a selection accept the clip
Accepts(id, call) ==
  /\ call.searchQuery # Null =>
       \E text \in TextsOf(id) : toLowerCase(text) = toLowerCase(call.searchQuery)
  /\ call.selectedTypes # {} => TypeOf(id) \in call.selectedTypes
  /\ call.selectedMainTags # {} =>
       SetOf(MainTagsOf(id)) \cap call.selectedMainTags # {}
  /\ call.selectedVideoTags # {} =>
       SetOf(VideoTagsOf(id)) \cap call.selectedVideoTags # {}
  /\ call.selectedSubTags # {} =>
       SetOf(SubTagsOf(id)) \cap call.selectedSubTags # {}
  /\ call.selectedPositions # {} => PositionOf(id) \in call.selectedPositions

\* C17: a clip of the list is in filteredClips exactly when every facet that
\* has a selection contains one of the clip's values (one selected value is
\* enough within a facet, every facet with a selection must be met, a facet
\* without selection does not constrain), the search text counting as one more
\* facet; filteredClips holds no clip that is not in the list.
FilterConjunction ==
  Filtered =>
    /\ SetOf(lastCall.value.result) \subseteq SetOf(lastCall.clips)
    /\ \A i \in DOMAIN lastCall.clips :
         lastCall.clips[i] \in SetOf(lastCall.value.result)
           <=> Accepts(lastCall.clips[i].id, lastCall)

\* Clips with video tags {1}, {1, 2}, {1}: video tag 1 alone keeps all three,
\* together with type Concept only the two that meet both
FilterConjunctionWitness ==
  /\ Filtered
  /\ lastCall.searchQuery = Null
  /\ Ids(lastCall.clips) = <<1, 2, 3>>
  /\ lastCall.selectedVideoTags = {1}
  /\ lastCall.selectedTypes = {"Concept"}
  /\ lastCall.selectedMainTags = {}
  /\ lastCall.selectedSubTags = {}
  /\ lastCall.selectedPositions = {}
  /\ Ids(lastCall.value.result) = <<1, 3>>

\* The clips of the list that pass the filter, in the order of the list
Passing(call) == SelectSeq(call.clips, LAMBDA clip : Accepts(clip.id, call))

\* Where a clip stands in the list
IndexOf(clips, clip) == CHOOSE i \in DOMAIN clips : clips[i] = clip

\* C18: filteredClips is a permutation of the clips that pass the filter; in
\* mode default it is in the order of the list, in mode shortest durations
\* never decrease, in mode longest they never increase, and clips of equal
\* duration stay in the order of the list; the list itself is as it was.
SortIsStablePermutation ==
  Filtered =>
    LET result == lastCall.value.result
        mode   == lastCall.sortMode
    IN  /\ Len(result) = Len(Passing(lastCall))
        /\ SetOf(result) = SetOf(Passing(lastCall))
        /\ mode = "default" => result = Passing(lastCall)
        /\ \A i, j \in DOMAIN result :
             i < j =>
               LET a == DurationOf(result[i].id)
                   b == DurationOf(result[j].id)
               IN  /\ mode = "shortest" => a <= b
                   /\ mode = "longest" => a >= b
                   /\ a = b => IndexOf(lastCall.clips, result[i])
                                 < IndexOf(lastCall.clips, result[j])
        /\ lastCall.value.clips = lastCall.clips

\* Clips 3 and 1 last equally long, clip 2 is shorter
SortIsStablePermutationWitness ==
  /\ Filtered
  /\ lastCall.sortMode = "shortest"
  /\ Ids(lastCall.clips) = <<3, 2, 1>>
  /\ Ids(lastCall.value.result) = <<2, 3, 1>>
  /\ lastCall.value.clips = lastCall.clips

\* C19: after writeCachedState both tiers hold the snapshot written, stamped
\* with the time of the write; a readCachedState that finds no fresh entry in
\* memory and a fresh one in the session store returns that entry and keeps it
\* in memory, so that reading again gives the same value from memory and
\* changes nothing.
TwoTierConsistency ==
  lastCall # Null =>
    LET f   == lastCall.favoritesOnly
        key == cacheKey(f)
    IN  /\ lastCall.op = "write" =>
             /\ memoryCache[key] =
                  [clips             |-> lastCall.value.clips,
                   hasMoreFromServer |-> lastCall.value.hasMoreFromServer,
                   nextOffset        |-> lastCall.value.nextOffset,
                   mainTagOptions    |-> lastCall.value.mainTagOptions,
                   videoTagOptions   |-> lastCall.value.videoTagOptions,
                   subTagOptions     |-> lastCall.value.subTagOptions,
                   positionOptions   |-> lastCall.value.positionOptions,
                   cachedAt          |-> lastCall.at]
             /\ sessionStorage[key] # Null
             /\ JSONparse(sessionStorage[key]) = memoryCache[key]
        /\ ( /\ lastCall.op = "read"
             /\ \/ lastCall.mem[key] = Null
                \/ lastCall.at - lastCall.mem[key].cachedAt >= CACHE_TTL_MS
             /\ lastCall.ss[key] # Null
             /\ lastCall.at - JSONparse(lastCall.ss[key]).cachedAt < CACHE_TTL_MS )
           => /\ lastCall.value = JSONparse(lastCall.ss[key])
              /\ memoryCache[key] = lastCall.value
              /\ sessionStorage[key] = lastCall.ss[key]
              /\ readCachedState(memoryCache, sessionStorage, f, lastCall.at)
                   = [value |-> lastCall.value, mem |-> memoryCache,
                      ss |-> sessionStorage]

\* A read after a reload of the tab: the memory tier was empty, the entry of
\* the session store is returned and is in memory afterwards
TwoTierConsistencyWitness ==
  /\ lastCall # Null
  /\ lastCall.op = "read"
  /\ lastCall.mem[cacheKey(lastCall.favoritesOnly)] = Null
  /\ lastCall.ss[cacheKey(lastCall.favoritesOnly)] # Null
  /\ lastCall.value # Null
  /\ lastCall.value.clips # <<>>
  /\ memoryCache[cacheKey(lastCall.favoritesOnly)] = lastCall.value

\* C20: when clearLibraryCaches has returned, neither tier holds an entry of
\* clip-library:all or clip-library:favorites, and readCachedState returns
\* null for both variants.
ClearRemovesBothVariants ==
  (lastCall # Null /\ lastCall.op = "clear") =>
    /\ \A k \in {"clip-library:all", "clip-library:favorites"} :
         memoryCache[k] = Null /\ sessionStorage[k] = Null
    /\ \A f \in BOOLEAN :
         readCachedState(memoryCache, sessionStorage, f, lastCall.at).value = Null

\* A clear of a cache that held fresh entries of both variants in both tiers
ClearRemovesBothVariantsWitness ==
  /\ lastCall # Null
  /\ lastCall.op = "clear"
  /\ \A f \in BOOLEAN :
       /\ lastCall.mem[cacheKey(f)] # Null
       /\ lastCall.ss[cacheKey(f)] # Null
       /\ readCachedState(lastCall.mem, lastCall.ss, f, lastCall.at).value # Null

\* Between the states before and after, nothing but the isFavorite of the
\* clip id differs: in the list, and in the selected clip when it has that id
OnlyFavoriteOf(id, before, after) ==
  /\ Ids(after.clips) = Ids(before.clips)
  /\ \A i \in DOMAIN before.clips :
       before.clips[i].id # id => after.clips[i] = before.clips[i]
  /\ (after.selectedClip = Null) <=> (before.selectedClip = Null)
  /\ before.selectedClip # Null =>
       /\ after.selectedClip.id = before.selectedClip.id
       /\ before.selectedClip.id # id => after.selectedClip = before.selectedClip
  /\ [after EXCEPT !.clips = before.clips,
                   !.selectedClip = before.selectedClip,
                   !.touched = before.touched] = before

\* The clip id has the flag value in the list, and in the selected clip when
\* it has that id
FavoriteIs(id, value, s) ==
  /\ \A i \in DOMAIN s.clips : s.clips[i].id = id => s.clips[i].isFavorite = value
  /\ (s.selectedClip # Null /\ s.selectedClip.id = id)
       => s.selectedClip.isFavorite = value

\* C21: the click on the favorite button of clip X flips X's isFavorite in the
\* list and in the selected clip of that id in the same step, while the
\* request is still in flight, and changes nothing else; the rollback of a
\* failed request sets X's isFavorite back and changes nothing else: ids, order,
\* length and every other clip are as before.
OptimisticFlipFrame ==
  [][/\ ToggleFavorite =>
          /\ OnlyFavoriteOf(view.selectedClip.id, st, st')
          /\ FavoriteIs(view.selectedClip.id, ~view.selectedClip.isFavorite, st')
          /\ view' = st'
          /\ \E q \in BagToSet(requests') :
               /\ q.kind = "favorite"
               /\ q.clipId = view.selectedClip.id
               /\ q.value = ~view.selectedClip.isFavorite
     /\ \A r \in BagToSet(requests) :
          (FavoriteFail(r) /\ Alive(r)) =>
            /\ OnlyFavoriteOf(r.clipId, st, st')
            /\ FavoriteIs(r.clipId, ~r.value, st')]_vars

\* Clip 1 of three was flipped to favorite and rolled back: the list is the
\* first page again, clip 1 still selected
OptimisticFlipFrameWitness ==
  /\ mounted.alive
  /\ ~mounted.favoritesOnly
  /\ done = {[id |-> 1, value |-> TRUE, ok |-> FALSE]}
  /\ st = view
  /\ st.clips = <<[id |-> 1, isFavorite |-> FALSE], [id |-> 2, isFavorite |-> TRUE],
                  [id |-> 3, isFavorite |-> TRUE]>>
  /\ st.selectedClip = [id |-> 1, isFavorite |-> FALSE]

\* C28: a selected clip and every clip of the list with the same id have the
\* same isFavorite, in the state with all updates applied and in the render
\* on screen.
SelectedAgreesWithList ==
  \A s \in {st, view} :
    s.selectedClip # Null =>
      \A i \in DOMAIN s.clips :
        s.clips[i].id = s.selectedClip.id
          => s.clips[i].isFavorite = s.selectedClip.isFavorite

\* C29: in favorites-only mode, the success of an unfavorite of clip X leaves
\* a selected clip other than X selected.
OtherSelectionKept ==
  [][\A r \in BagToSet(requests) :
       ( /\ FavoriteOk(r) /\ Alive(r)
         /\ r.favoritesOnly /\ ~r.value
         /\ st.selectedClip # Null
         /\ st.selectedClip.id # r.clipId )
       => st'.selectedClip = st.selectedClip]_vars

\* The toggle whose completion is recorded, when exactly one is
TheToggle == CHOOSE t \in done : TRUE

\* C22: when the one favorite toggle of the instance has completed and no
\* request is outstanding, whatever page loads completed while it was in
\* flight, the list holds the clips of the pages merged, in the order merged
\* (without the clip a successful unfavorite removed in favorites-only mode),
\* and every clip of the list with the toggled id carries the outcome: the
\* new value after a success, the old one after a failure.
ToggleRaceSafe ==
  ( /\ mounted.alive
    /\ merged # Null
    /\ Cardinality(done) = 1
    /\ RequestsAlive = {} )
  => LET t       == TheToggle
         removed == mounted.favoritesOnly /\ t.ok /\ ~t.value
     IN  /\ Ids(st.clips) =
              IF removed THEN SelectSeq(merged.ids, LAMBDA id : id # t.id)
              ELSE merged.ids
         /\ \A i \in DOMAIN st.clips :
              st.clips[i].id = t.id
                => st.clips[i].isFavorite = (IF t.ok THEN t.value ELSE ~t.value)

\* C25: when the instance on screen has no request outstanding and nothing
\* left to render, a cache entry of its variant holds the clips (ids, order
\* and isFavorite), the hasMoreFromServer and the nextOffset of the instance.
SnapshotCoherent ==
  ( /\ mounted.alive
    /\ RequestsAlive = {}
    /\ st = view
    /\ pendingPersist = <<>> )
  => \A entry \in
         {memoryCache[cacheKey(mounted.favoritesOnly)]} \ {Null} :
       /\ entry.clips = st.clips
       /\ entry.hasMoreFromServer = st.hasMoreFromServer
       /\ entry.nextOffset = st.nextOffset

\* C26: the snapshot a successful first-page load persists has the main-tag,
\* video-tag, sub-tag and position options the instance itself holds after
\* that load.
FirstPageSnapshotOptions ==
  [][\A r \in BagToSet(requests) :
       (FirstPageOk(r) /\ Alive(r)) =>
         LET entry == memoryCache'[cacheKey(r.favoritesOnly)]
         IN  /\ entry # Null
             /\ entry.mainTagOptions = st'.mainTagOptions
             /\ entry.videoTagOptions = st'.videoTagOptions
             /\ entry.subTagOptions = st'.subTagOptions
             /\ entry.positionOptions = st'.positionOptions]_vars

StorageFailuresHidden ==
  [][/\ \A r \in BagToSet(requests) :
          ((FirstPageOk(r) \/ MoreOk(r)) /\ Alive(r) /\ setItemThrows) =>
            LET entry == memoryCache'[cacheKey(r.favoritesOnly)]
            IN  /\ entry # Null
                /\ entry.cachedAt = now
                /\ entry.nextOffset = st'.nextOffset
                /\ r.kind = "first" => entry.clips = st'.clips
                /\ sessionStorage' = sessionStorage
                /\ st'.errorMessage = Null
                /\ ~st'.isLoading /\ ~st'.isLoadingMore
     /\ \A f \in BOOLEAN :
          ( /\ Mount(f)
            /\ \/ memoryCache[cacheKey(f)] = Null
               \/ now - memoryCache[cacheKey(f)].cachedAt >= CACHE_TTL_MS
            /\ getItemThrows \/ sessionStorage[cacheKey(f)] = Unparsable )
          => /\ ~lastMount'.hit
             /\ st'.errorMessage = Null
             /\ st'.isLoading
             /\ \E q \in BagToSet(requests') :
                  q.kind = "first" /\ q.favoritesOnly = f /\ q.alive
             /\ memoryCache' = memoryCache
             /\ sessionStorage' = sessionStorage]_vars

\* The key held text that does not parse when the library was opened and the
\* store was full when the first page came: the page is on screen without an
\* error message, the memory tier holds it, the store still holds the text
StorageFailuresHiddenWitness ==
  /\ mounted.alive
  /\ used.mounts = 1
  /\ storage = "full"
  /\ sessionStorage[cacheKey(mounted.favoritesOnly)] = Unparsable
  /\ memoryCache[cacheKey(mounted.favoritesOnly)] # Null
  /\ memoryCache[cacheKey(mounted.favoritesOnly)].clips = st.clips
  /\ st.clips # <<>>
  /\ st.errorMessage = Null
  /\ Idle

\* C24: a call of fetchLibraryMeta, fetchLibraryClips, fetchFavoriteClips,
\* setClipFavorite or fetchVideos has passed exactly one request to fetch(),
\* the one of its endpoint and arguments, whatever the outcome; once settled,
\* it has failed with the message of its function exactly when a response
\* came whose status is outside 200..299.
ClientFailureContract ==
  client # Null =>
    /\ client.fetches = <<Endpoint(client.fn, client.args)>>
    /\ client.awaiting = "settled" =>
         ( (client.outcome.rejected
              /\ client.outcome.message = FailureMessage(client.fn))
           <=> (client.response # Null
                  /\ (client.response.status < 200
                        \/ client.response.status > 299)) )
    /\ \A other \in ClientFunctions \ {client.fn} :
         FailureMessage(other) # FailureMessage(client.fn)

\* fetchFavoriteClips(30, 3) was answered 500 and has failed with its message
ClientFailureContractWitness ==
  /\ client # Null
  /\ client.fn = "fetchFavoriteClips"
  /\ client.args = [limit |-> 30, offset |-> 3]
  /\ client.awaiting = "settled"
  /\ client.response = [status |-> 500]
  /\ client.outcome = [rejected |-> TRUE, message |-> "Failed to load favorite clips"]
  /\ Len(client.fetches) = 1

\* The place of a stage in idle, fetching, ..., exporting, complete
StageIndex(stage) ==
  CASE stage = "idle" -> 0
    [] stage = "complete" -> Len(stageSequence) + 1
    [] OTHER -> CHOOSE k \in 1 .. Len(stageSequence) : stageSequence[k] = stage

\* The stage of the instance on screen is one of a run
Running == clipVideo.open /\ clipVideo.currentStage \notin {"idle", "complete"}

\* The intervals that advance the stage of the instance on screen
Advancing ==
  {i \in clipVideo.intervals : clipVideo.open /\ i.owner = clipVideo.instance}

\* C30: while the page stays on screen, the stage changes only by a start of
\* a run, from idle or complete to fetching with progress 0, or by one step
\* to the next stage of fetching, transcribing, chunking, scoring, exporting,
\* complete, with progress not decreasing, and progress is 100 at complete;
\* at most one interval advances the stage, exactly while a run is under way;
\* a run under way reaches complete unless the page is left, and every
\* interval is cleared in the end.
GenerationRun ==
  /\ [][(clipVideo.open /\ clipVideo'.open) =>
          /\ clipVideo'.runs # clipVideo.runs =>
               /\ clipVideo.currentStage \in {"idle", "complete"}
               /\ clipVideo'.currentStage = "fetching"
               /\ clipVideo'.progress = 0
          /\ (clipVideo'.runs = clipVideo.runs
                /\ clipVideo'.currentStage # clipVideo.currentStage) =>
               /\ clipVideo.currentStage # "idle"
               /\ StageIndex(clipVideo'.currentStage)
                    = StageIndex(clipVideo.currentStage) + 1
          /\ clipVideo'.runs = clipVideo.runs =>
               clipVideo'.progress >= clipVideo.progress
          /\ clipVideo'.currentStage = "complete" => clipVideo'.progress = 100]_vars
  /\ [](/\ Cardinality(Advancing) <= 1
        /\ Running <=> Advancing # {})
  /\ Running ~> (~clipVideo.open \/ clipVideo.currentStage = "complete")
  /\ \A run \in 1 .. MaxRuns :
       (\E i \in clipVideo.intervals : i.run = run)
         ~> ~(\E i \in clipVideo.intervals : i.run = run)

\* The second run of an instance, started from complete, has reached complete
\* with progress 100 and its interval is cleared
GenerationRunWitness ==
  /\ clipVideo.open
  /\ clipVideo.instance = 1
  /\ clipVideo.runs = 2
  /\ clipVideo.currentStage = "complete"
  /\ clipVideo.progress = 100
  /\ clipVideo.generatedClipsCount \in 8 .. 12
  /\ clipVideo.intervals = {}

=============================================================================
